---------------------------- MODULE Spec2Model ----------------------------
(***************************************************************************)
(* A model of qkit's magnetoconductance MeasurementScript                  *)
(* (src/src/qkit/measure/magnetoconductance/measurement_script.py).        *)
(*                                                                         *)
(* The object's fields are the variables.  Every method is one action:     *)
(* its guard and effect are read off the method's code, an exception the   *)
(* code raises ends the call with the fields as they were at the raise     *)
(* and is recorded in ret.  Numbers are integers; a rate is counted in     *)
(* tenths of a unit per second, so that the rate table's 0.1 is 1.         *)
(* Python's None is the empty tuple and a present value v is <<v>>.        *)
(***************************************************************************)
EXTENDS Integers, Sequences, FiniteSets, TLC

VARIABLES _sweep, _step, _modes, _data, _lockin, dim,
          wp_start, wp_stop, anna, tune, inputs_dict, pc, ret,
          _sph, _volts, hard_config, soft_config, adwin_bootload,
          analysis, analysis_params,
          flow, wrapper

\* the fields the coordinate generator and the pipeline only read
config == <<_sph, _volts, hard_config, soft_config, adwin_bootload,
            analysis, analysis_params>>

\* the QmQkitWrapper object and the calls it has made outside itself
qm == <<flow, wrapper>>

vars == <<_sweep, _step, _modes, _data, _lockin, dim,
          wp_start, wp_stop, anna, tune, inputs_dict, pc, ret, config, qm>>

(***************************************************************************)
(* Python values.                                                          *)
(***************************************************************************)
None == <<>>
Some(v) == <<v>>
IsSet(o) == o # None
Get(o) == o[1]

\* an argument of a call: a string, a number, or None
Str(x) == [t |-> "str", s |-> x, n |-> 0]
Num(k) == [t |-> "num", s |-> "", n |-> k]
NoneArg == [t |-> "none", s |-> "", n |-> 0]
\* isinstance(val,(int,float))
IsNumber(val) == val.t = "num"

Abs(x) == IF x < 0 THEN -x ELSE x
Max(a, b) == IF a < b THEN b ELSE a
\* ceil(a / b) for b # 0
CeilDiv(a, b) ==
    LET n == IF b < 0 THEN -a ELSE a
        d == Abs(b)
    IN  IF n >= 0 THEN (n + d - 1) \div d ELSE -((-n) \div d)

\* how the last call ended: the method, the exception it raised or "None",
\* and the keyword arguments it was given
NoArgs == <<>>
Returned(op) == [op |-> op, exc |-> "None", args |-> NoArgs]
Raised(op, e) == [op |-> op, exc |-> e, args |-> NoArgs]

(***************************************************************************)
(* The tables of __init__.                                                 *)
(***************************************************************************)
valid_step_vars == {"vg", "vd", "N", "bt", "phi", "psi", "theta"}
valid_sweep_vars == {"vg", "vd", "bt", "bp", "phi", "psi", "theta"}
valid_wp_mode == {"normal", "sweep"}
valid_measure_mode == {"static", "sweep"}
valid_inputs == {"raw", "inph", "quad"}
valid_traces == {"trace", "retrace", "difference"}
valid_calc == {"amp", "phase"}
\* rate in tenths of T (or V) per second: 0.1 is 1
max_rate_config ==
    [k \in {"bx", "by", "bz", "bp", "bt", "vg", "vd"} |-> 1]
\* how many tenths make a unit: a distance d at rate r lasts (d * RateDen) / r
RateDen == 10

(***************************************************************************)
(* numpy's float32.  An integer of magnitude up to 2^24 is a float32; a    *)
(* larger one rounds to the nearest multiple of its binade's spacing, a    *)
(* tie to the even multiple.                                               *)
(***************************************************************************)
F32Exact == 16777216

RECURSIVE F32Spacing(_, _)
F32Spacing(a, u) == IF a < F32Exact * u THEN u ELSE F32Spacing(a, 2 * u)

F32Abs(a) ==
    LET u == F32Spacing(a, 1)
        q == a \div u
        r == a % u
    IN  IF 2 * r < u THEN q * u
        ELSE IF 2 * r > u THEN (q + 1) * u
        ELSE IF q % 2 = 0 THEN q * u ELSE (q + 1) * u

F32(n) == IF n < 0 THEN -F32Abs(-n) ELSE F32Abs(n)

(***************************************************************************)
(* np.arange(start, stop, step, dtype=np.float32) for integer arguments.   *)
(* The length is ceil((stop - start) / step), not below 0; the first two   *)
(* elements are start and start + step stored as float32, and element i    *)
(* is first + i * (second - first) in float32 arithmetic.                  *)
(***************************************************************************)
\* a length that counts stop itself when the step divides the distance
ArangeLen_closed(start, stop, step) ==
    Max(0, ((stop - start) \div step) + 1)

ArangeLen(start, stop, step) == Max(0, CeilDiv(stop - start, step))

ArangeF32(start, stop, step) ==
    LET len == ArangeLen(start, stop, step)
        first == F32(start)
        delta == F32(F32(start + step) - first)
    IN  [i \in 1..len |->
            IF i = 1 THEN first
            ELSE IF i = 2 THEN F32(start + step)
            ELSE F32(first + F32((i - 1) * delta))]

(***************************************************************************)
(* set_step: every key of kwargs that is a key of _step is looked at;      *)
(* var_name is stored when it is in the allowed step set, start, stop and  *)
(* step_size when the value is a number.  Anything else is logged.         *)
(***************************************************************************)
StepAccepts(key, val) ==
    CASE key = "var_name" -> val.t = "str" /\ val.s \in valid_step_vars
      [] key \in {"start", "stop", "step_size"} -> IsNumber(val)
      [] OTHER -> FALSE

StepStored(key, val) == IF key = "var_name" THEN val.s ELSE Some(val.n)

set_step_fields(step, kwargs) ==
    [key \in DOMAIN step |->
        IF key \in DOMAIN kwargs /\ StepAccepts(key, kwargs[key])
        THEN StepStored(key, kwargs[key])
        ELSE step[key]]

(***************************************************************************)
(* generate_steps: with start, stop and step_size all set the values are   *)
(* np.arange's and dim is 2, otherwise dim is 1 and nothing else changes.  *)
(* np.arange raises ZeroDivisionError for a step of 0, before either       *)
(* assignment.                                                             *)
(***************************************************************************)
StepComplete(step) ==
    IsSet(step.start) /\ IsSet(step.stop) /\ IsSet(step.step_size)

generate_steps_raises(step) == StepComplete(step) /\ Get(step.step_size) = 0

generate_steps_step(step) ==
    IF StepComplete(step)
    THEN [step EXCEPT !.values =
            Some(ArangeF32(Get(step.start), Get(step.stop), Get(step.step_size)))]
    ELSE step

\* a test that forgets step_size
generate_steps_dim_no_size(step) ==
    IF IsSet(step.start) /\ IsSet(step.stop) THEN 2 ELSE 1

generate_steps_dim(step) == IF StepComplete(step) THEN 2 ELSE 1


(***************************************************************************)
(* get_step: generates the steps when no values are stored yet.            *)
(***************************************************************************)
get_step_generates(step) == step.values = None

(***************************************************************************)
(* set_sweep: var_name is stored when it is in the allowed sweep set,      *)
(* start and stop when the value is a number.  After the loop, a 'rate'    *)
(* key is compared with the rate table's entry of the variable now stored: *)
(* a rate not below it is stored as given, a lower one is replaced by the  *)
(* table's entry.  The lookup raises KeyError for a variable without an    *)
(* entry and the comparison TypeError for a value that is no number; the   *)
(* fields the loop stored stay stored.                                     *)
(***************************************************************************)
SweepAccepts(key, val) ==
    CASE key = "var_name" -> val.t = "str" /\ val.s \in valid_sweep_vars
      [] key \in {"start", "stop"} -> IsNumber(val)
      [] OTHER -> FALSE

SweepStored(key, val) == IF key = "var_name" THEN val.s ELSE Some(val.n)

set_sweep_loop(sweep, kwargs) ==
    [key \in DOMAIN sweep |->
        IF key \in DOMAIN kwargs /\ SweepAccepts(key, kwargs[key])
        THEN SweepStored(key, kwargs[key])
        ELSE sweep[key]]

set_sweep_exc(sweep, kwargs) ==
    LET var == set_sweep_loop(sweep, kwargs).var_name
    IN  IF "rate" \in DOMAIN kwargs /\ var # "None"
        THEN IF var \notin DOMAIN max_rate_config THEN "KeyError"
             ELSE IF ~IsNumber(kwargs["rate"]) THEN "TypeError"
             ELSE "None"
        ELSE "None"

\* a clamp that takes the table's entry as a ceiling
set_sweep_rate_ceiling(var, r) ==
    IF r <= max_rate_config[var] THEN r ELSE max_rate_config[var]

set_sweep_rate(var, r) ==
    IF r >= max_rate_config[var] THEN r ELSE max_rate_config[var]

set_sweep_fields(sweep, kwargs) ==
    LET looped == set_sweep_loop(sweep, kwargs)
    IN  IF "rate" \in DOMAIN kwargs /\ looped.var_name # "None"
           /\ set_sweep_exc(sweep, kwargs) = "None"
        THEN [looped EXCEPT !.rate =
                Some(set_sweep_rate(looped.var_name, kwargs["rate"].n))]
        ELSE looped

(***************************************************************************)
(* generate_sweep: with start, stop and rate all set, the duration is      *)
(* (stop - start) / rate, kept as the exact fraction n / d seconds, and    *)
(* the values are np.linspace(start, stop, round(duration * sample_rate)), *)
(* kept as its three arguments.  np.linspace raises ValueError for a       *)
(* negative count, after the duration was stored.                          *)
(***************************************************************************)
SweepComplete(sweep) ==
    IsSet(sweep.start) /\ IsSet(sweep.stop) /\ IsSet(sweep.rate)

SweepDuration(sweep) ==
    [n |-> (Get(sweep.stop) - Get(sweep.start)) * RateDen, d |-> Get(sweep.rate)]

\* Python's round(n / d) for d > 0: to the nearest integer, a tie to the even one
RoundFrac(n, d) ==
    LET q == n \div d
        r == n % d
    IN  IF 2 * r < d THEN q
        ELSE IF 2 * r > d THEN q + 1
        ELSE IF q % 2 = 0 THEN q ELSE q + 1

SweepCount(sweep, sample_rate) ==
    LET dur == SweepDuration(sweep) IN RoundFrac(dur.n * sample_rate, dur.d)

generate_sweep_raises(sweep, sample_rate) ==
    SweepComplete(sweep) /\ SweepCount(sweep, sample_rate) < 0

\* a generator that stores an empty sequence when a field is missing
generate_sweep_fields_empty(sweep, sample_rate) ==
    IF ~SweepComplete(sweep)
    THEN [sweep EXCEPT !.values = Some([lo |-> 0, hi |-> 0, num |-> 0])]
    ELSE IF generate_sweep_raises(sweep, sample_rate)
    THEN [sweep EXCEPT !.duration = Some(SweepDuration(sweep))]
    ELSE [sweep EXCEPT !.duration = Some(SweepDuration(sweep)),
                       !.values = Some([lo |-> Get(sweep.start),
                                        hi |-> Get(sweep.stop),
                                        num |-> SweepCount(sweep, sample_rate)])]

generate_sweep_fields(sweep, sample_rate) ==
    IF ~SweepComplete(sweep) THEN sweep
    ELSE IF generate_sweep_raises(sweep, sample_rate)
    THEN [sweep EXCEPT !.duration = Some(SweepDuration(sweep))]
    ELSE [sweep EXCEPT !.duration = Some(SweepDuration(sweep)),
                       !.values = Some([lo |-> Get(sweep.start),
                                        hi |-> Get(sweep.stop),
                                        num |-> SweepCount(sweep, sample_rate)])]

get_sweep_generates(sweep) == sweep.values = None

(***************************************************************************)
(* The fields as __init__ leaves them before it calls set_.                *)
(***************************************************************************)
Categories == {"inph", "quad", "raw", "amp", "phase"}
SampleRateDefault == 500000

\* line 66
LockinInit ==
    [freq |-> None, amp |-> None, tao |-> None, init_time |-> None,
     sample_rate |-> Some(SampleRateDefault)]

\* the volts set_volts stored
VoltsSet(volts) == [key \in {"vd", "vg"} |-> Some(volts[key])]

\* lines 57-59 and 81-83
ConfigInit ==
    /\ _sph = [theta |-> 0, phi |-> 0, psi |-> 0, bp |-> 0, bt |-> 0]
    /\ hard_config = "default_hard_config"
    /\ soft_config = "default_soft_config"
    /\ adwin_bootload = FALSE
    /\ analysis = <<>>
    /\ analysis_params = <<>>

\* QmQkitWrapper.__init__; a name is the sequence of its characters
QmInit ==
    /\ flow = <<>>
    /\ wrapper = [dirname |-> <<>>, comment |-> <<>>, exp_name |-> None,
                  coords |-> {}, values |-> <<>>, _file_name |-> None]

Init ==
    /\ _sweep = [var_name |-> "None", start |-> None, stop |-> None,
                 unit |-> None, rate |-> None, duration |-> None,
                 values |-> None]
    /\ _step = [var_name |-> "None", start |-> None, stop |-> None,
                unit |-> None, step_size |-> None, values |-> None]
    /\ _modes = [wp |-> "None", measure |-> "None"]
    /\ _data = [measure |-> [retrace |-> FALSE, inputs |-> <<>>],
                temp_save |-> [c \in Categories |-> <<>>],
                save |-> [c \in Categories |-> <<>>],
                plot |-> [c \in Categories |-> <<>>]]
    /\ _lockin = LockinInit
    /\ dim = None
    /\ wp_start = None
    /\ wp_stop = None
    /\ anna = <<>>
    /\ tune = None
    /\ inputs_dict = None
    /\ pc = "set_"
    /\ ret = Returned("__init__")
    /\ _volts = [vd |-> None, vg |-> None]
    /\ ConfigInit
    /\ QmInit

(***************************************************************************)
(* The calls a client makes of the coordinate generator.                   *)
(***************************************************************************)
set_step(kwargs) ==
    /\ _step' = set_step_fields(_step, kwargs)
    /\ ret' = [op |-> "set_step", exc |-> "None", args |-> kwargs]
    /\ UNCHANGED <<qm, config, _sweep, _modes, _data, _lockin, dim, wp_start, wp_stop,
                   anna, tune, inputs_dict, pc>>

generate_steps ==
    /\ IF generate_steps_raises(_step)
       THEN /\ ret' = Raised("generate_steps", "ZeroDivisionError")
            /\ UNCHANGED <<qm, config, _step, dim>>
       ELSE /\ _step' = generate_steps_step(_step)
            /\ dim' = Some(generate_steps_dim(_step))
            /\ ret' = Returned("generate_steps")
    /\ UNCHANGED <<qm, config, _sweep, _modes, _data, _lockin, wp_start, wp_stop,
                   anna, tune, inputs_dict, pc>>

get_step ==
    /\ IF get_step_generates(_step)
       THEN IF generate_steps_raises(_step)
            THEN /\ ret' = Raised("get_step", "ZeroDivisionError")
                 /\ UNCHANGED <<qm, config, _step, dim>>
            ELSE /\ _step' = generate_steps_step(_step)
                 /\ dim' = Some(generate_steps_dim(_step))
                 /\ ret' = Returned("get_step")
       ELSE /\ ret' = Returned("get_step")
            /\ UNCHANGED <<qm, config, _step, dim>>
    /\ UNCHANGED <<qm, config, _sweep, _modes, _data, _lockin, wp_start, wp_stop,
                   anna, tune, inputs_dict, pc>>

set_sweep(kwargs) ==
    /\ _sweep' = set_sweep_fields(_sweep, kwargs)
    /\ ret' = [op |-> "set_sweep", exc |-> set_sweep_exc(_sweep, kwargs),
                args |-> kwargs]
    /\ UNCHANGED <<qm, config, _step, _modes, _data, _lockin, dim, wp_start, wp_stop,
                   anna, tune, inputs_dict, pc>>

generate_sweep ==
    /\ _sweep' = generate_sweep_fields(_sweep, Get(_lockin.sample_rate))
    /\ ret' = IF generate_sweep_raises(_sweep, Get(_lockin.sample_rate))
              THEN Raised("generate_sweep", "ValueError")
              ELSE Returned("generate_sweep")
    /\ UNCHANGED <<qm, config, _step, _modes, _data, _lockin, dim, wp_start, wp_stop,
                   anna, tune, inputs_dict, pc>>

get_sweep ==
    /\ IF get_sweep_generates(_sweep)
       THEN /\ _sweep' = generate_sweep_fields(_sweep, Get(_lockin.sample_rate))
            /\ ret' = IF generate_sweep_raises(_sweep, Get(_lockin.sample_rate))
                      THEN Raised("get_sweep", "ValueError")
                      ELSE Returned("get_sweep")
       ELSE /\ ret' = Returned("get_sweep")
            /\ UNCHANGED _sweep
    /\ UNCHANGED <<qm, config, _step, _modes, _data, _lockin, dim, wp_start, wp_stop,
                   anna, tune, inputs_dict, pc>>

(***************************************************************************)
(* SpecStep: the step side of the coordinate generator.  The arguments a   *)
(* client passes to set_step: one key, or the three range keys together.   *)
(***************************************************************************)
Kw1(key, val) == [k \in {key} |-> val]

StepKwargs ==
    {Kw1("var_name", v) : v \in {Str("vg"), Str("N"), Str("bp")}}
    \cup {Kw1("start", v) : v \in {Num(0), Num(1), Str("x")}}
    \cup {Kw1("stop", v) : v \in {Num(3), Num(0), NoneArg}}
    \cup {Kw1("step_size", v) : v \in {Num(1), Num(2), Num(0), Num(-1)}}
    \cup {Kw1("values", Num(1)), Kw1("bogus", Num(1))}
    \cup {[start |-> Num(0), stop |-> Num(3), step_size |-> Num(1)]}

\* the one sweep a client declares beside the steps
StepSpecSweepKwargs ==
    {[var_name |-> Str("vg"), start |-> Num(0), stop |-> Num(1), rate |-> Num(1)]}

NextStep ==
    \/ \E kwargs \in StepKwargs : set_step(kwargs)
    \/ generate_steps
    \/ get_step
    \/ \E kwargs \in StepSpecSweepKwargs : set_sweep(kwargs)
    \/ get_sweep

SpecStep == Init /\ [][NextStep]_vars

(***************************************************************************)
(* C6: when generate_steps has returned, dim is 2 if step start, stop and  *)
(* step_size are all set and 1 otherwise, and with dim 1 the step values   *)
(* are still unset.                                                        *)
(***************************************************************************)
C6_DimIffStepFieldsSet ==
    (ret.op = "generate_steps" /\ ret.exc = "None") =>
        /\ dim = Some(2) <=>
             (_step.start # None /\ _step.stop # None /\ _step.step_size # None)
        /\ dim \in {Some(1), Some(2)}
        /\ dim = Some(1) => _step.values = None

\* generate_steps has returned with one of the three fields missing
C6_Witness ==
    /\ ret.op = "generate_steps" /\ ret.exc = "None"
    /\ _step.start # None /\ _step.step_size # None /\ _step.stop = None
    /\ dim = Some(1)

(***************************************************************************)
(* C7: once dim is decided, a call of set_step, get_step or get_sweep      *)
(* leaves it as it is.                                                     *)
(***************************************************************************)
C7_DimDecidedOnce ==
    [][(dim # None /\ ret'.op \in {"set_step", "get_step", "get_sweep"})
          => dim' = dim]_vars

(***************************************************************************)
(* SpecArange: generate_steps on an object constructed with a complete     *)
(* step range, MeasurementScript(step={start, stop, step_size}).  The      *)
(* ranges are the small ones and the ones around 2^24, where float32       *)
(* stops holding every integer.                                            *)
(***************************************************************************)
ArangeCases ==
    ({-2, 0, 1, 2} \X {-2, 0, 3, 9, 10} \X {1, 2, 3})
    \cup ({F32Exact - 2, F32Exact + 1} \X {F32Exact + 4} \X {1, 3})

InitArange ==
    /\ \E c \in ArangeCases :
         _step = [var_name |-> "None", start |-> Some(c[1]), stop |-> Some(c[2]),
                  unit |-> None, step_size |-> Some(c[3]), values |-> None]
    /\ _sweep = [var_name |-> "None", start |-> None, stop |-> None,
                 unit |-> None, rate |-> None, duration |-> None,
                 values |-> None]
    /\ _modes = [wp |-> "None", measure |-> "None"]
    /\ _data = [measure |-> [retrace |-> FALSE, inputs |-> <<>>],
                temp_save |-> [c \in Categories |-> <<>>],
                save |-> [c \in Categories |-> <<>>],
                plot |-> [c \in Categories |-> <<>>]]
    /\ _lockin = LockinInit
    /\ dim = None
    /\ wp_start = None
    /\ wp_stop = None
    /\ anna = <<>>
    /\ tune = None
    /\ inputs_dict = None
    /\ pc = "set_"
    /\ ret = Returned("set_")
    /\ _volts = [vd |-> None, vg |-> None]
    /\ ConfigInit
    /\ QmInit

NextArange ==
    \/ generate_steps
    \/ get_step

SpecArange == InitArange /\ [][NextArange]_vars

\* the values are start, start + size, ... : exactly the terms below stop
HalfOpen(values, start, stop, size) ==
    /\ \A i \in 1..Len(values) :
         values[i] = start + (i - 1) * size /\ values[i] < stop
    /\ start + Len(values) * size >= stop

(***************************************************************************)
(* C8 as stated: for every start, stop and positive step_size, the values  *)
(* generate_steps stores are start, start + step_size, ..., exactly the    *)
(* terms strictly below stop.                                              *)
(***************************************************************************)
C8_HalfOpenForAll ==
    (ret.op = "generate_steps" /\ ret.exc = "None" /\ Get(_step.step_size) > 0)
        => /\ _step.values # None
           /\ HalfOpen(Get(_step.values), Get(_step.start), Get(_step.stop),
                       Get(_step.step_size))

(***************************************************************************)
(* C8 as amended: the same for integer start and stop of magnitude at most *)
(* 2^24 that lie at most 2^24 apart.                                       *)
(***************************************************************************)
C8_HalfOpenWithinF32 ==
    (/\ ret.op = "generate_steps" /\ ret.exc = "None"
     /\ Get(_step.step_size) > 0
     /\ Abs(Get(_step.start)) <= F32Exact /\ Abs(Get(_step.stop)) <= F32Exact
     /\ Get(_step.stop) - Get(_step.start) <= F32Exact)
        => /\ _step.values # None
           /\ HalfOpen(Get(_step.values), Get(_step.start), Get(_step.stop),
                       Get(_step.step_size))

\* start = 0, stop = 10, step_size = 3 has given [0, 3, 6, 9]
C8_Witness ==
    /\ ret.op = "generate_steps" /\ ret.exc = "None"
    /\ _step.start = Some(0) /\ _step.stop = Some(10) /\ _step.step_size = Some(3)
    /\ _step.values = Some(<<0, 3, 6, 9>>)

(***************************************************************************)
(* SpecSweep: the sweep side of the coordinate generator.                  *)
(***************************************************************************)
SweepKwargs ==
    {Kw1("var_name", v) : v \in {Str("vg"), Str("bp"), Str("phi"), Str("N")}}
    \cup {Kw1("start", v) : v \in {Num(0), Num(2), Str("x")}}
    \cup {Kw1("stop", v) : v \in {Num(1), Num(0)}}
    \cup {Kw1("rate", v) : v \in {Num(-1), Num(0), Num(1), Num(2), Num(5),
                                  Str("fast")}}
    \cup {[var_name |-> Str("vd"), rate |-> Num(0)],
          [var_name |-> Str("N"), rate |-> Num(2)]}

NextSweep ==
    \/ \E kwargs \in SweepKwargs : set_sweep(kwargs)
    \/ generate_sweep
    \/ get_sweep

SpecSweep == Init /\ [][NextSweep]_vars

\* C16: while one of the sweep's start, stop and rate is unset, the values
\* and the duration are unset, and a generate_sweep or get_sweep called then
\* does not raise and leaves the sweep as it was.
C16_IncompleteSweepStaysUnset ==
    /\ [](~SweepComplete(_sweep) =>
            (_sweep.values = None /\ _sweep.duration = None))
    /\ [][(ret'.op \in {"generate_sweep", "get_sweep"}
             /\ ~SweepComplete(_sweep)) =>
            (ret'.exc = "None" /\ _sweep' = _sweep)]_vars

\* get_sweep was called with start and stop set and the rate missing
C16_Witness ==
    /\ ret.op = "get_sweep"
    /\ IsSet(_sweep.start) /\ IsSet(_sweep.stop) /\ _sweep.rate = None
    /\ _sweep.var_name = "vg"
    /\ _sweep.values = None /\ _sweep.duration = None

(***************************************************************************)
(* C3: when set_sweep was given a numeric rate r and the sweep variable    *)
(* has a rate-table entry, the stored rate is r if r is not below the      *)
(* entry and the entry otherwise; a stored rate is never below the table's *)
(* entry of a variable it can have been set for.                           *)
(***************************************************************************)
C3_RateClampedUpToTable ==
    /\ (/\ ret.op = "set_sweep" /\ ret.exc = "None"
        /\ "rate" \in DOMAIN ret.args
        /\ _sweep.var_name \in DOMAIN max_rate_config)
          => LET r == ret.args["rate"].n
                 table_max == max_rate_config[_sweep.var_name]
             IN  /\ r >= table_max => _sweep.rate = Some(r)
                 /\ r < table_max => _sweep.rate = Some(table_max)
    /\ _sweep.rate # None =>
          \E var \in DOMAIN max_rate_config :
              Get(_sweep.rate) >= max_rate_config[var]

\* a rate below the table's entry was asked for and the entry was stored
C3_Witness ==
    /\ ret.op = "set_sweep" /\ ret.exc = "None"
    /\ "rate" \in DOMAIN ret.args /\ ret.args["rate"] = Num(0)
    /\ _sweep.var_name = "vg"
    /\ _sweep.rate = Some(max_rate_config["vg"])

(***************************************************************************)
(* WorkingPoint (qkit.measure.magnetoconductance.working_point): the       *)
(* cartesian outputs of the channels it was created with, and the          *)
(* spherical parameters.  set_wp and set_sph store the names the point     *)
(* declares and ignore the others; outs resolves to the channel's values.  *)
(***************************************************************************)
SphNames == {"theta", "phi", "psi", "bp", "bt"}

WorkingPoint(channels) ==
    [_outputs |-> [ch \in channels |-> 0], _sph |-> [p \in SphNames |-> 0]]

WpSetWp(wp, kwargs) ==
    [wp EXCEPT !._outputs =
        [ch \in DOMAIN wp._outputs |->
            IF ch \in DOMAIN kwargs THEN kwargs[ch] ELSE wp._outputs[ch]]]

WpSetSph(wp, kwargs) ==
    [wp EXCEPT !._sph =
        [p \in DOMAIN wp._sph |->
            IF p \in DOMAIN kwargs THEN kwargs[p] ELSE wp._sph[p]]]

WpOuts(wp) == wp._outputs

(***************************************************************************)
(* init_wps: both points take the volts; the sweep variable's start goes   *)
(* to the start point and its stop to the stop point, as a spherical       *)
(* parameter if it names one and as an output if it names a channel.       *)
(***************************************************************************)
init_wp(channels, volts, var_name, val) ==
    LET wp == WpSetWp(WorkingPoint(channels), volts)
    IN  IF var_name \in DOMAIN wp._sph THEN WpSetSph(wp, Kw1(var_name, val))
        ELSE IF var_name \in DOMAIN wp._outputs
        THEN WpSetWp(wp, Kw1(var_name, val))
        ELSE wp

(***************************************************************************)
(* set_start_wp and set_stop_wp.  The first test looks for the step        *)
(* variable's name among the (name, value) pairs of the spherical          *)
(* parameters, where a name never is; a step variable that names an output *)
(* channel is stored with set_wp.                                          *)
(***************************************************************************)
\* var_name in wp.get_sph().items(): the name, here the 1-tuple of it, is
\* compared with the pairs
InSphItems(var_name, wp) ==
    \E p \in DOMAIN wp._sph : var_name = <<p, wp._sph[p]>>

set_start_wp_start(start, stop, var_name, kwargs) ==
    IF InSphItems(Some(var_name), start) THEN start
    ELSE IF var_name \in DOMAIN start._outputs THEN WpSetWp(start, kwargs)
    ELSE start

set_start_wp_stop(start, stop, var_name, kwargs) ==
    IF InSphItems(Some(var_name), start) THEN WpSetSph(stop, kwargs)
    ELSE stop

set_stop_wp_stop(stop, var_name, kwargs) ==
    IF InSphItems(Some(var_name), stop) THEN WpSetSph(stop, kwargs)
    ELSE IF var_name \in DOMAIN stop._outputs THEN WpSetWp(stop, kwargs)
    ELSE stop

(***************************************************************************)
(* The ramp time of one channel and the minimum duration of wp_setter:     *)
(* the largest |target - source| / max_rate_config[channel] over the       *)
(* channels of the target, at least 0.                                     *)
(***************************************************************************)
RampTime(distance, rate) == (distance * RateDen) \div rate

RECURSIVE MaxOver(_, _)
MaxOver(S, f) ==
    IF S = {} THEN 0
    ELSE LET k == CHOOSE k \in S : TRUE
         IN  Max(f[k], MaxOver(S \ {k}, f))

\* a loop that stops after the first channel
min_duration_first_only(target, source) ==
    LET chans == DOMAIN target
        first == CHOOSE k \in chans : TRUE
    IN  IF chans = {} THEN 0
        ELSE RampTime(Abs(target[first] - source[first]), max_rate_config[first])

min_duration(target, source) ==
    LET chans == DOMAIN target
    IN  MaxOver(chans, [k \in chans |->
            RampTime(Abs(target[k] - source[k]), max_rate_config[k])])

\* the lookup max_rate_config[key] fails for a channel without an entry
min_duration_raises(target) == ~(DOMAIN target \subseteq DOMAIN max_rate_config)

\* a dt that is taken as given
resolve_dt_unchecked(dt, min) == IF dt.t = "none" THEN min ELSE dt.n

\* dt is None: the minimum; dt below the minimum: the minimum
resolve_dt(dt, min) ==
    IF dt.t = "none" THEN min
    ELSE IF dt.n < min THEN min
    ELSE dt.n

Sweep(target, duration) ==
    [cmd |-> "sweep", target |-> target, duration |-> duration]

(***************************************************************************)
(* wp_setter(x, dt): the outputs the instrument was left at are those of   *)
(* the start point with retrace and of the stop point without; the step    *)
(* variable is set to x in both points; the ramp to the start point's new  *)
(* outputs lasts the resolved dt.  A step variable of None cannot be a     *)
(* keyword (TypeError, nothing stored); a channel without a rate-table     *)
(* entry raises KeyError after the points were updated.                    *)
(***************************************************************************)
MaxCmds == 2

wp_setter(x, dt) ==
    LET source == IF _data.measure.retrace THEN WpOuts(Get(wp_start))
                  ELSE WpOuts(Get(wp_stop))
        var == _step.var_name
        kwargs == Kw1(var, x)
        start1 == set_start_wp_start(Get(wp_start), Get(wp_stop), var, kwargs)
        stop1 == set_start_wp_stop(Get(wp_start), Get(wp_stop), var, kwargs)
        stop2 == set_stop_wp_stop(stop1, var, kwargs)
        target == WpOuts(start1)
        args == [x |-> Num(x), dt |-> dt]
    IN  /\ wp_start # None /\ wp_stop # None
        /\ Len(anna) < MaxCmds
        /\ IF var = "None"
           THEN /\ ret' = [op |-> "wp_setter", exc |-> "TypeError", args |-> args]
                /\ UNCHANGED <<qm, config, wp_start, wp_stop, anna>>
           ELSE /\ wp_start' = Some(start1)
                /\ wp_stop' = Some(stop2)
                /\ IF min_duration_raises(target)
                   THEN /\ ret' = [op |-> "wp_setter", exc |-> "KeyError",
                                   args |-> args]
                        /\ UNCHANGED anna
                   ELSE /\ anna' = Append(anna,
                               Sweep(target, resolve_dt(dt, min_duration(target, source))))
                        /\ ret' = [op |-> "wp_setter", exc |-> "None",
                                   args |-> args]
        /\ UNCHANGED <<qm, config, _sweep, _step, _modes, _data, _lockin, dim, tune,
                       inputs_dict, pc>>

(***************************************************************************)
(* start_sweep: the ramp time from the outputs read back to the start      *)
(* point is computed over the start point's channels (KeyError for one     *)
(* without a rate-table entry); the call ramp_to_wp(outs, dt=start_time)   *)
(* then gives ramp_to_wp(self, dt) its dt twice, a TypeError.              *)
(***************************************************************************)
start_sweep_exc(target) ==
    IF min_duration_raises(target) THEN "KeyError" ELSE "TypeError"

start_sweep ==
    /\ wp_start # None
    /\ ret' = Raised("start_sweep", start_sweep_exc(WpOuts(Get(wp_start))))
    /\ UNCHANGED <<qm, config, _sweep, _step, _modes, _data, _lockin, dim, wp_start,
                   wp_stop, anna, tune, inputs_dict, pc>>

(***************************************************************************)
(* SpecRamp: the ramp scheduler on an object whose working points init_wps *)
(* has made, for the output channels of the hard_config, the volts, the    *)
(* sweep and the step variable the object was configured with.             *)
(***************************************************************************)
RampChannels == {{"vg", "vd"}, {"vg", "vd", "aux"}}
RampVolts == {[vg |-> 0, vd |-> 0], [vg |-> 1, vd |-> 0]}
RampSweepVars == {"vg", "bt"}
RampStepVars == {"None", "vd", "vg", "bt", "N"}
RampX == {0, 3}
RampDt == {NoneArg, Num(0), Num(10), Num(40)}

InitRamp ==
    /\ \E channels \in RampChannels, volts \in RampVolts, var \in RampSweepVars :
         /\ _sweep = [var_name |-> var, start |-> Some(0), stop |-> Some(2),
                      unit |-> None, rate |-> None, duration |-> None,
                      values |-> None]
         /\ wp_start = Some(init_wp(channels, volts, var, 0))
         /\ wp_stop = Some(init_wp(channels, volts, var, 2))
         /\ _volts = VoltsSet(volts)
    /\ \E var \in RampStepVars :
         _step = [var_name |-> var, start |-> None, stop |-> None,
                  unit |-> None, step_size |-> None, values |-> None]
    /\ \E retrace \in BOOLEAN :
         _data = [measure |-> [retrace |-> retrace, inputs |-> <<>>],
                  temp_save |-> [c \in Categories |-> <<>>],
                  save |-> [c \in Categories |-> <<>>],
                  plot |-> [c \in Categories |-> <<>>]]
    /\ _modes = [wp |-> "None", measure |-> "None"]
    /\ _lockin = LockinInit
    /\ dim = Some(1)
    /\ anna = <<>>
    /\ tune = None
    /\ inputs_dict = None
    /\ pc = "start_sweep"
    /\ ret = Returned("init_wps")
    /\ ConfigInit
    /\ QmInit

NextRamp ==
    \/ \E x \in RampX, dt \in RampDt : wp_setter(x, dt)
    \/ start_sweep

SpecRamp == InitRamp /\ [][NextRamp]_vars

\* every channel of the target can cover its distance within the duration
Covers(duration, target, source) ==
    \A ch \in DOMAIN target :
        duration * max_rate_config[ch] >= Abs(target[ch] - source[ch]) * RateDen

\* the duration covers every channel and no shorter one does
IsMinimum(duration, target, source) ==
    /\ duration >= 0
    /\ Covers(duration, target, source)
    /\ \/ duration = 0
       \/ \E ch \in DOMAIN target :
            duration * max_rate_config[ch] = Abs(target[ch] - source[ch]) * RateDen

\* the outputs wp_setter takes the instrument to be at
LeftAt == IF _data.measure.retrace THEN WpOuts(Get(wp_start))
          ELSE WpOuts(Get(wp_stop))

(***************************************************************************)
(* C2: a wp_setter call that returns has issued one sweep command whose    *)
(* duration covers every channel's |new target - previous value| / rate;   *)
(* without dt the duration is that minimum, and a dt is kept when it       *)
(* covers the channels and replaced by the minimum when it does not.       *)
(***************************************************************************)
C2_RampNeverShorterThanMinimum ==
    [][(ret'.op = "wp_setter" /\ ret'.exc = "None") =>
         LET cmd == anna'[Len(anna')]
             dt == ret'.args.dt
         IN  /\ anna' = Append(anna, cmd)
             /\ cmd.cmd = "sweep"
             /\ cmd.target = WpOuts(Get(wp_start'))
             /\ Covers(cmd.duration, cmd.target, LeftAt)
             /\ dt.t = "none" => IsMinimum(cmd.duration, cmd.target, LeftAt)
             /\ dt.t = "num" =>
                  IF Covers(dt.n, cmd.target, LeftAt)
                  THEN cmd.duration = dt.n
                  ELSE IsMinimum(cmd.duration, cmd.target, LeftAt)]_vars

\* a dt of 0 was asked for and the ramp was given the time it needs
C2_Witness ==
    /\ ret.op = "wp_setter" /\ ret.exc = "None"
    /\ ret.args.dt = Num(0)
    /\ anna # <<>> /\ anna[Len(anna)].duration > 0

(***************************************************************************)
(* C4 as stated: a wp_setter call without dt, once it has a step variable  *)
(* to pass on, does not fail, and the duration of its ramp is the largest  *)
(* |target - source| / rate over the channels that the target and the rate *)
(* table share.                                                            *)
(***************************************************************************)
C4_DurationOverSharedChannels ==
    [][(ret'.op = "wp_setter" /\ _step.var_name # "None"
          /\ ret'.args.dt = NoneArg) =>
         LET target == WpOuts(Get(wp_start'))
             shared == DOMAIN target \cap DOMAIN max_rate_config
             cmd == anna'[Len(anna')]
         IN  /\ ret'.exc = "None"
             /\ anna' = Append(anna, cmd)
             /\ IsMinimum(cmd.duration, [ch \in shared |-> target[ch]], LeftAt)]_vars

(***************************************************************************)
(* C4 as amended: when every channel of the target has a rate-table entry  *)
(* the duration of the ramp is the largest |target - source| / rate over   *)
(* the target's channels; when one has none the call raises KeyError and   *)
(* issues no ramp.                                                         *)
(***************************************************************************)
C4_DurationOverTargetChannels ==
    [][(ret'.op = "wp_setter" /\ _step.var_name # "None"
          /\ ret'.args.dt = NoneArg) =>
         LET target == WpOuts(Get(wp_start'))
             cmd == anna'[Len(anna')]
         IN  IF DOMAIN target \subseteq DOMAIN max_rate_config
             THEN /\ ret'.exc = "None"
                  /\ anna' = Append(anna, cmd)
                  /\ cmd.target = target
                  /\ IsMinimum(cmd.duration, target, LeftAt)
             ELSE /\ ret'.exc = "KeyError"
                  /\ anna' = anna]_vars

\* a ramp of 30 s: the step channel moves by 3 and the sweep channel by 2
C4_Witness ==
    /\ ret.op = "wp_setter" /\ ret.exc = "None" /\ ret.args.dt = NoneArg
    /\ anna # <<>> /\ anna[Len(anna)].duration = 30
    /\ _step.var_name = "vd" /\ _sweep.var_name = "vg"

(***************************************************************************)
(* set_data: the items of a list given for a category are appended to      *)
(* the list the phase keeps for it.  Under 'measure' the                   *)
(* retrace flag is a bool: given a bool the loop over it raises TypeError. *)
(***************************************************************************)
SaveOrder == <<"inph", "quad", "raw", "amp", "phase">>

Range(seq) == {seq[i] : i \in 1..Len(seq)}

\* a list argument and a bool argument
List(items) == [t |-> "list", v |-> items]
Bool(b) == [t |-> "bool", v |-> b]

\* the only entry of _data that is not a list
IsFlag(key, key2) == key = "measure" /\ key2 = "retrace"

set_data_exc(key, key2, val2) ==
    IF ~(key \in DOMAIN _data /\ key2 \in DOMAIN _data[key]) THEN "None"
    ELSE IF val2.t = "bool" THEN "TypeError"
    ELSE IF IsFlag(key, key2) /\ val2.v # <<>> THEN "AttributeError"
    ELSE "None"

set_data_fields(data, key, key2, val2) ==
    IF key \in DOMAIN data /\ key2 \in DOMAIN data[key]
         /\ val2.t = "list" /\ ~IsFlag(key, key2)
    THEN [data EXCEPT ![key][key2] = @ \o val2.v]
    ELSE data

set_data(key, key2, val2) ==
    /\ _data' = set_data_fields(_data, key, key2, val2)
    /\ ret' = [op |-> "set_data", exc |-> set_data_exc(key, key2, val2),
               args |-> NoArgs]
    /\ UNCHANGED <<qm, config, _sweep, _step, _modes, _lockin, dim, wp_start, wp_stop,
                   anna, tune, inputs_dict, pc>>

(***************************************************************************)
(* get_data: the first value of the plot lists is a list, which has no     *)
(* items(): AttributeError, before the retrace flag is derived.            *)
(***************************************************************************)
get_data ==
    /\ ret' = Raised("get_data", "AttributeError")
    /\ UNCHANGED <<qm, config, _sweep, _step, _modes, _data, _lockin, dim, wp_start,
                   wp_stop, anna, tune, inputs_dict, pc>>

(***************************************************************************)
(* sweep_measure.  What the instrument returns for a ramp is a buffer per  *)
(* input; sample_rate is read back from the instrument.  A buffer is cut   *)
(* to its first sample_rate samples as float32, and the retrace's is then  *)
(* reversed.                                                               *)
(***************************************************************************)
Key(key, key2) == key \o "_" \o key2

Min(a, b) == IF a <= b THEN a ELSE b

Cut(buffer, sample_rate) ==
    [i \in 1..Min(sample_rate, Len(buffer)) |-> F32(buffer[i])]

Flip(a) == [i \in 1..Len(a) |-> a[Len(a) + 1 - i]]

Minus(rt, tr) == [i \in 1..Len(rt) |-> F32(rt[i] - tr[i])]

\* bool() of a list or of an array: an array of two or more elements has
\* no truth value (ValueError), one of a single element has its element's
Truth(a) ==
    IF Len(a) = 0 THEN "False"
    ELSE IF Len(a) = 1 THEN (IF a[1] # 0 THEN "True" ELSE "False")
    ELSE "ValueError"

\* lines 239-255 for one input category with a non-empty list
inputs_values(key, val, trace, retrace, sample_rate, values_dict) ==
    LET tr == IF "trace" \in Range(val) THEN Cut(trace[key], sample_rate)
              ELSE <<>>
        rt == IF "retrace" \in Range(val)
              THEN Flip(Cut(Get(retrace)[key], sample_rate)) ELSE <<>>
        both == IF Truth(tr) = "True" THEN Truth(rt) ELSE Truth(tr)
        diff == IF "difference" \in Range(val) /\ both = "True"
                THEN Minus(rt, tr) ELSE <<>>
        stored == {<<"trace", tr>>, <<"retrace", rt>>, <<"difference", diff>>}
        kept == {p \in stored : Truth(p[2]) = "True"}
    IN  IF "retrace" \in Range(val) /\ retrace = None
        THEN [exc |-> "TypeError", values |-> values_dict]
        ELSE IF \/ "difference" \in Range(val) /\ both = "ValueError"
                \/ \E p \in stored : Truth(p[2]) = "ValueError"
        THEN [exc |-> "ValueError", values |-> values_dict]
        ELSE [exc |-> "None",
              values |-> [k \in DOMAIN values_dict
                                  \cup {Key(key, p[1]) : p \in kept} |->
                            IF \E p \in kept : Key(key, p[1]) = k
                            THEN (CHOOSE p \in kept : Key(key, p[1]) = k)[2]
                            ELSE values_dict[k]]]

\* the first loop over temp_save, from its i-th category on
RECURSIVE inputs_loop(_, _, _, _, _, _)
inputs_loop(temp_save, i, trace, retrace, sample_rate, values_dict) ==
    IF i > Len(SaveOrder) THEN [exc |-> "None", values |-> values_dict]
    ELSE LET key == SaveOrder[i]
             val == temp_save[key]
             r == IF val # <<>> /\ key \in valid_inputs
                  THEN inputs_values(key, val, trace, retrace, sample_rate,
                                     values_dict)
                  ELSE [exc |-> "None", values |-> values_dict]
         IN  IF r.exc # "None" THEN r
             ELSE inputs_loop(temp_save, i + 1, trace, retrace, sample_rate,
                              r.values)

\* the second loop: "for key2,val2 in amp" unpacks the key 'trace' into two
\* names, which raises ValueError for every non-empty amp or phase list
calc_loop_exc(temp_save) ==
    IF \E key \in valid_calc : temp_save[key] # <<>> THEN "ValueError"
    ELSE "None"

\* the (category, variant) pairs of a save configuration, in its order
RECURSIVE SavePairsFrom(_, _)
SavePairsFrom(save, i) ==
    IF i > Len(SaveOrder) THEN <<>>
    ELSE [j \in 1..Len(save[SaveOrder[i]]) |->
             <<SaveOrder[i], save[SaveOrder[i]][j]>>]
         \o SavePairsFrom(save, i + 1)

SaveKeys(save) ==
    {Key(p[1], p[2]) : p \in Range(SavePairsFrom(save, 1))}

\* lines 289-292: a key values_dict lacks raises KeyError
save_dict(save, values_dict) ==
    IF SaveKeys(save) \subseteq DOMAIN values_dict
    THEN [exc |-> "None", val |-> [k \in SaveKeys(save) |-> values_dict[k]]]
    ELSE [exc |-> "KeyError", val |-> <<>>]

unit == [inph |-> "V", quad |-> "V", raw |-> "V", amp |-> "V", phase |-> ""]

\* create_inputs: a unit for every key of the save configuration
create_inputs_dict(save) ==
    [k \in SaveKeys(save) |->
        unit[(CHOOSE p \in Range(SavePairsFrom(save, 1)) :
                 Key(p[1], p[2]) = k)[1]]]

sweep_measure_result(data, trace, retrace, sample_rate) ==
    LET r == inputs_loop(data.temp_save, 1, trace, retrace, sample_rate, <<>>)
    IN  IF r.exc # "None" THEN [exc |-> r.exc, val |-> <<>>]
        ELSE IF calc_loop_exc(data.temp_save) # "None"
        THEN [exc |-> calc_loop_exc(data.temp_save), val |-> <<>>]
        ELSE save_dict(data.save, r.values)

Measure(target, duration) ==
    [cmd |-> "sweep_measure", target |-> target, duration |-> duration]

\* buffers the instrument may return, one per input
Buffers ==
    {[inph |-> <<1, 2, 7>>, quad |-> <<3, 1, 2>>, raw |-> <<2, 2, 2>>],
     [inph |-> <<6, 4, 1>>, quad |-> <<5, 5, 5>>, raw |-> <<1, 3, 3>>]}

MaxSamples == 2

sweep_measure ==
    /\ wp_start # None /\ wp_stop # None
    /\ Len(anna) + (IF _data.measure.retrace THEN 2 ELSE 1) <= MaxCmds
    /\ \E b1 \in Buffers, b2 \in Buffers, sample_rate \in 1..MaxSamples :
         LET retrace == IF _data.measure.retrace THEN Some(b2) ELSE None
             r == sweep_measure_result(_data, b1, retrace, sample_rate)
         IN  /\ _data.measure.retrace \/ b2 = b1
             /\ anna' = anna
                  \o <<Measure(WpOuts(Get(wp_stop)), _sweep.duration)>>
                  \o (IF _data.measure.retrace
                      THEN <<Measure(WpOuts(Get(wp_start)), _sweep.duration)>>
                      ELSE <<>>)
             /\ ret' = [op |-> "sweep_measure", exc |-> r.exc,
                        args |-> NoArgs, val |-> r.val,
                        trace |-> b1, retrace |-> retrace,
                        sample_rate |-> sample_rate]
    /\ UNCHANGED <<qm, config, _sweep, _step, _modes, _data, _lockin, dim, wp_start,
                   wp_stop, tune, inputs_dict, pc>>

DataPhases == {"temp_save", "save", "N/A"}
DataCategories == {"inph", "amp", "N/A"}
DataLists ==
    {<<"trace">>, <<"difference">>, <<"trace", "retrace", "difference">>,
     <<"difference", "retrace", "trace">>}

\* The state init_wps leaves for a sweep of vg.  Both values of the retrace
\* flag are taken: no method stores one (set_data and get_data raise before
\* they do), it is assigned in _data['measure'].  The quad list is one the
\* constructor's set_ was given; nothing was to be saved, which is what
\* create_inputs made inputs_dict from.
InitMeasure ==
    /\ \E retrace \in BOOLEAN, quad \in {<<>>, <<"trace", "retrace", "difference">>} :
         _data = [measure |-> [retrace |-> retrace, inputs |-> <<>>],
                  temp_save |-> [c \in Categories |->
                                   IF c = "quad" THEN quad ELSE <<>>],
                  save |-> [c \in Categories |-> <<>>],
                  plot |-> [c \in Categories |-> <<>>]]
    /\ _sweep = [var_name |-> "vg", start |-> Some(0), stop |-> Some(2),
                 unit |-> None, rate |-> Some(1),
                 duration |-> Some([n |-> 2 * RateDen, d |-> 1]),
                 values |-> None]
    /\ _step = [var_name |-> "None", start |-> None, stop |-> None,
                unit |-> None, step_size |-> None, values |-> None]
    /\ wp_start = Some(init_wp({"vg", "vd"}, [vg |-> 0, vd |-> 0], "vg", 0))
    /\ wp_stop = Some(init_wp({"vg", "vd"}, [vg |-> 0, vd |-> 0], "vg", 2))
    /\ _modes = [wp |-> "None", measure |-> "sweep"]
    /\ _lockin = LockinInit
    /\ dim = Some(1)
    /\ anna = <<>>
    /\ tune = None
    /\ inputs_dict = Some(create_inputs_dict([c \in Categories |-> <<>>]))
    /\ pc = "start_measurement"
    /\ ret = Returned("init_wps")
    /\ _volts = VoltsSet([vg |-> 0, vd |-> 0])
    /\ ConfigInit
    /\ QmInit

\* every list is given once
NextMeasure ==
    \/ \E key \in DataPhases, key2 \in DataCategories, val2 \in DataLists :
         /\ (key \in DOMAIN _data /\ key2 \in DOMAIN _data[key])
               => _data[key][key2] = <<>>
         /\ set_data(key, key2, List(val2))
    \/ set_data("measure", "retrace", Bool(TRUE))
    \/ get_data
    \/ sweep_measure

SpecMeasure == InitMeasure /\ [][NextMeasure]_vars

DifferenceRequested(data) ==
    \E key \in {"temp_save", "save", "plot"}, c \in Categories :
        "difference" \in Range(data[key][c])

\* C1: a sweep_measure called while a difference is requested for some
\* category and retrace is disabled ends in an error, and no command has
\* been issued to the instrument by then.
C1_DifferenceWithoutRetraceFailsFirst ==
    [][(ret'.op = "sweep_measure" /\ DifferenceRequested(_data)
          /\ ~_data.measure.retrace) =>
         (ret'.exc # "None" /\ anna' = anna)]_vars

\* the configuration asks for nothing its prerequisites do not provide:
\* what is saved is computed, a difference has its trace and retrace, a
\* retrace is acquired, amp and phase have their inph and quad
Prepared(data) ==
    /\ \A c \in Categories :
         /\ Range(data.save[c]) \subseteq Range(data.temp_save[c])
         /\ "difference" \in Range(data.temp_save[c])
              => {"trace", "retrace"} \subseteq Range(data.temp_save[c])
         /\ "retrace" \in Range(data.temp_save[c]) => data.measure.retrace
    /\ \A c \in valid_calc :
         Range(data.temp_save[c]) \subseteq
             Range(data.temp_save.inph) \cap Range(data.temp_save.quad)

\* C9: sweep_measure, called with a configuration whose prerequisites are
\* there, returns a mapping whose keys are exactly the category_variant
\* names of the pairs the save configuration lists.
C9_KeysAreTheSavePairs ==
    (ret.op = "sweep_measure" /\ Prepared(_data)) =>
        /\ ret.exc = "None"
        /\ DOMAIN ret.val = SaveKeys(_data.save)

Call(name, arg) == [call |-> name, arg |-> arg]

ModesAccepts(key, val) ==
    CASE key = "wp" -> val.t = "str" /\ val.s \in valid_wp_mode
      [] key = "measure" -> val.t = "str" /\ val.s \in valid_measure_mode
      [] OTHER -> FALSE

\* a setter that falls back on a default mode
set_modes_fields_default(modes, kwargs) ==
    [key \in DOMAIN modes |->
        IF key \in DOMAIN kwargs
        THEN IF ModesAccepts(key, kwargs[key]) THEN kwargs[key].s
             ELSE "sweep"
        ELSE modes[key]]

set_modes_fields(modes, kwargs) ==
    [key \in DOMAIN modes |->
        IF key \in DOMAIN kwargs /\ ModesAccepts(key, kwargs[key])
        THEN kwargs[key].s
        ELSE modes[key]]

\* set_(modes=..., step=..., data=..., sweep=...): the setters in this order
set_fields(c, kwargs) ==
    [c EXCEPT !._modes = set_modes_fields(@, kwargs.modes),
              !._step = set_step_fields(@, kwargs.step),
              !._data = set_data_fields(@, "save", "inph", List(kwargs.data)),
              !._sweep = set_sweep_fields(@, kwargs.sweep),
              !.exc = set_sweep_exc(c._sweep, kwargs.sweep),
              !.at = "set_"]

create_tuning_c(c) == [c EXCEPT !.tune = Some(<<>>), !.at = "create_tuning"]

create_inputs_c(c) ==
    [c EXCEPT !.inputs_dict = Some(create_inputs_dict(c._data.save)),
              !.at = "create_inputs"]

register_measurement_c(c) ==
    [c EXCEPT !.tune =
                IF c._modes.measure = "sweep"
                THEN Some(Append(Get(@),
                                 Call("register_measurement", "sweep_measure")))
                ELSE @,
              !.at = "register_measurement"]

\* one call for every key of inputs_dict, in its order
RECURSIVE NodeBounds(_, _)
NodeBounds(pairs, i) ==
    IF i > Len(pairs) THEN <<>>
    ELSE (IF \E j \in 1..(i - 1) : pairs[j] = pairs[i] THEN <<>>
          ELSE <<Call("set_node_bounds", Key(pairs[i][1], pairs[i][2]))>>)
         \o NodeBounds(pairs, i + 1)

set_node_bounds_c(c) ==
    [c EXCEPT !.tune =
                IF c._modes.measure = "sweep"
                THEN Some(Get(@) \o NodeBounds(SavePairsFrom(c._data.save, 1), 1))
                ELSE @,
              !.at = "set_node_bounds"]

activate_measurement_c(c) ==
    [c EXCEPT !.tune =
                IF c._modes.measure = "sweep"
                THEN Some(Append(Get(@),
                                 Call("activate_measurement", "sweep_measure")))
                ELSE @,
              !.at = "activate_measurement"]

start_lockin_c(c) ==
    [c EXCEPT !.anna = Append(@, [cmd |-> "init_measurement"]),
              !.at = "start_lockin"]

\* update_lockin stores the frequency and the sample rate read back from
\* the instrument
update_lockin_c(c, freq, sample_rate) ==
    [c EXCEPT !._lockin.freq = Some(freq),
              !._lockin.sample_rate = Some(sample_rate),
              !.at = "update_lockin"]

generate_sweep_c(c) ==
    [c EXCEPT !._sweep = generate_sweep_fields(@, Get(c._lockin.sample_rate)),
              !.exc = IF generate_sweep_raises(c._sweep, Get(c._lockin.sample_rate))
                      THEN "ValueError" ELSE "None",
              !.at = "generate_sweep"]

generate_steps_c(c) ==
    IF generate_steps_raises(c._step)
    THEN [c EXCEPT !.exc = "ZeroDivisionError", !.at = "generate_steps"]
    ELSE [c EXCEPT !._step = generate_steps_step(@),
                   !.dim = Some(generate_steps_dim(c._step)),
                   !.at = "generate_steps"]

set_parameter_c(c) ==
    [c EXCEPT !.tune =
                Some(Get(@) \o
                     (IF c.dim = Some(1)
                      THEN <<Call("set_x_parameters", c._sweep.var_name)>>
                      ELSE <<Call("set_x_parameters", c._step.var_name),
                             Call("set_y_parameters", c._sweep.var_name)>>)),
              !.at = "set_parameter"]

\* with dim 2 set_start_wp() and set_stop_wp() are called without a value
\* and change nothing; a sweep variable comes with its start and stop
init_wps_c(c, channels, volts) ==
    [c EXCEPT !.wp_start =
                Some(init_wp(channels, volts, c._sweep.var_name,
                             IF IsSet(c._sweep.start) THEN Get(c._sweep.start)
                             ELSE 0)),
              !.wp_stop =
                Some(init_wp(channels, volts, c._sweep.var_name,
                             IF IsSet(c._sweep.stop) THEN Get(c._sweep.stop)
                             ELSE 0)),
              !.at = "init_wps"]

\* outs_start: the outputs read back from the instrument
start_sweep_c(c, outs_start) ==
    LET target == WpOuts(Get(c.wp_start))
    IN  IF start_sweep_exc(target) # "None"
        THEN [c EXCEPT !.exc = start_sweep_exc(target), !.at = "start_sweep"]
        ELSE [c EXCEPT !.anna = Append(@, Sweep(target,
                                                min_duration(target, outs_start))),
                       !.at = "start_sweep"]

start_measurement_c(c) ==
    [c EXCEPT !.tune =
                IF c.dim = Some(1) THEN Some(Append(Get(@), Call("measure1D", "")))
                ELSE IF c.dim = Some(2)
                THEN Some(Append(Get(@), Call("measure2D", "")))
                ELSE @,
              !.at = "start_measurement"]

\* the step's result if the construction got to it
After(c, result) == IF c.exc = "None" THEN result ELSE c

\* lines 39-104; show_plots, add_view and add_analysis change nothing kept
__init__(kwargs, channels, volts, freq, sample_rate) ==
    /\ pc = "set_"
    /\ \E c1 \in {set_fields([_sweep |-> _sweep, _step |-> _step,
                              _modes |-> _modes, _data |-> _data,
                              _lockin |-> _lockin, dim |-> dim,
                              wp_start |-> wp_start, wp_stop |-> wp_stop,
                              anna |-> anna, tune |-> tune,
                              inputs_dict |-> inputs_dict, exc |-> "None",
                              at |-> "__init__"], kwargs)} :
       \E c2 \in {After(c1, create_tuning_c(c1))} :
       \E c3 \in {After(c2, create_inputs_c(c2))} :
       \E c4 \in {After(c3, register_measurement_c(c3))} :
       \E c5 \in {After(c4, set_node_bounds_c(c4))} :
       \E c6 \in {After(c5, activate_measurement_c(c5))} :
       \E c7 \in {After(c6, start_lockin_c(c6))} :
       \E c8 \in {After(c7, update_lockin_c(c7, freq, sample_rate))} :
       \E c9 \in {After(c8, generate_sweep_c(c8))} :
       \E c10 \in {After(c9, generate_steps_c(c9))} :
       \E c11 \in {After(c10, set_parameter_c(c10))} :
       \E c12 \in {After(c11, init_wps_c(c11, channels, volts))} :
       \E c13 \in {After(c12, start_sweep_c(c12, [ch \in channels |-> 0]))} :
       \E c \in {After(c13, start_measurement_c(c13))} :
         /\ _sweep' = c._sweep /\ _step' = c._step /\ _modes' = c._modes
         /\ _data' = c._data /\ _lockin' = c._lockin /\ dim' = c.dim
         /\ wp_start' = c.wp_start /\ wp_stop' = c.wp_stop
         /\ anna' = c.anna /\ tune' = c.tune /\ inputs_dict' = c.inputs_dict
         /\ pc' = IF c.exc = "None" THEN "constructed" ELSE "raised"
         /\ ret' = [op |-> c.at, exc |-> c.exc, args |-> NoArgs]
    /\ _volts' = VoltsSet(volts)
    /\ UNCHANGED <<qm, _sph, hard_config, soft_config, adwin_bootload, analysis,
                   analysis_params>>

NoKwargs == <<>>

InitModes ==
    {NoKwargs, Kw1("measure", Str("static")), Kw1("measure", Str("sweep")),
     Kw1("measure", Str("N/A")), [measure |-> Str("sweep"), wp |-> Str("normal")]}

InitSteps ==
    {NoKwargs,
     [var_name |-> Str("vd"), start |-> Num(0), stop |-> Num(3),
      step_size |-> Num(1)],
     [var_name |-> Str("vd"), start |-> Num(0), stop |-> Num(3),
      step_size |-> Num(0)],
     [var_name |-> Str("vd"), start |-> Num(0), stop |-> Num(3)]}

InitSweeps ==
    {NoKwargs,
     [var_name |-> Str("vg"), start |-> Num(0), stop |-> Num(2), rate |-> Num(1)],
     [var_name |-> Str("vg"), start |-> Num(0), stop |-> Num(2), rate |-> Num(4)],
     [var_name |-> Str("vg"), start |-> Num(2), stop |-> Num(0), rate |-> Num(1)],
     [var_name |-> Str("bt"), start |-> Num(0), stop |-> Num(1), rate |-> Num(1)],
     [var_name |-> Str("phi"), start |-> Num(0), stop |-> Num(1), rate |-> Num(1)]}

InitData == {<<>>, <<"trace">>, <<"trace", "trace">>, <<"trace", "difference">>}

InitFreqs == {SampleRateDefault \div 1000}

InitSampleRates == {SampleRateDefault, SampleRateDefault \div 2}

InitKwargs ==
    [modes : InitModes, step : InitSteps, sweep : InitSweeps, data : InitData]

NextInit ==
    \E kwargs \in InitKwargs, channels \in RampChannels, volts \in RampVolts,
       freq \in InitFreqs, sample_rate \in InitSampleRates :
        __init__(kwargs, channels, volts, freq, sample_rate)

SpecInit == Init /\ [][NextInit]_vars

Runs(log) == {i \in 1..Len(log) : log[i].call \in {"measure1D", "measure2D"}}

\* before the i-th call, 'sweep_measure' was registered exactly once and
\* activated after that
Armed(log, i) ==
    /\ Cardinality({j \in 1..(i - 1) : log[j] = Call("register_measurement",
                                                     "sweep_measure")}) = 1
    /\ \E j, k \in 1..(i - 1) :
         /\ j < k
         /\ log[j] = Call("register_measurement", "sweep_measure")
         /\ log[k] = Call("activate_measurement", "sweep_measure")

LacksPrerequisite(data) ==
    LET asked(c) == Range(data.temp_save[c]) \cup Range(data.save[c])
    IN  \/ \E c \in Categories :
             /\ "difference" \in asked(c)
             /\ ~(/\ {"trace", "retrace"} \subseteq Range(data.temp_save[c])
                  /\ data.measure.retrace)
        \/ \E c \in valid_calc :
             ~(asked(c) \subseteq Range(data.temp_save.inph)
                                    \cap Range(data.temp_save.quad))

\* C12: a sweep_measure called with a configuration that asks for an amp,
\* a phase or a difference whose raw data is not acquired ends in an error,
\* raised before anything is given to the instrument: the request is not
\* skipped and not found out after the acquisition.
C12_MissingPrerequisiteFailsFirst ==
    [][(ret'.op = "sweep_measure" /\ LacksPrerequisite(_data)) =>
         (ret'.exc # "None" /\ anna' = anna)]_vars

(***************************************************************************)
(* The other setters.  set_sph, set_volts and set_lockin store a number    *)
(* given for a key the mapping has; set_hard_config and set_soft_config    *)
(* take the dict given under their own name, set_adwin_bootload the bool;  *)
(* set_analysis appends the values that are valid analyses;                *)
(* set_analysis_params subscripts kwargs.values(), a TypeError.            *)
(***************************************************************************)
valid_analysis == {"polarplot", "histogramm"}

\* a dict argument, known by a name
Dict(name) == [t |-> "dict", s |-> name, n |-> 0]

set_sph_fields(sph, kwargs) ==
    [key \in DOMAIN sph |->
        IF key \in DOMAIN kwargs /\ IsNumber(kwargs[key]) THEN kwargs[key].n
        ELSE sph[key]]

set_volts_fields(volts, kwargs) ==
    [key \in DOMAIN volts |->
        IF key \in DOMAIN kwargs /\ IsNumber(kwargs[key])
        THEN Some(kwargs[key].n)
        ELSE volts[key]]

set_lockin_fields(lockin, kwargs) ==
    [key \in DOMAIN lockin |->
        IF key \in DOMAIN kwargs /\ IsNumber(kwargs[key])
        THEN Some(kwargs[key].n)
        ELSE lockin[key]]

\* set_hard_config and set_soft_config: kwargs.get(name) if it is a dict
set_config_field(config_now, name, kwargs) ==
    IF name \in DOMAIN kwargs /\ kwargs[name].t = "dict" THEN kwargs[name].s
    ELSE config_now

set_adwin_bootload_field(bootload, kwargs) ==
    IF "adwin_bootload" \in DOMAIN kwargs /\ kwargs["adwin_bootload"].t = "bool"
    THEN kwargs["adwin_bootload"].v
    ELSE bootload

\* for one keyword
set_analysis_field(analysis_now, kwargs) ==
    IF \E key \in DOMAIN kwargs :
          kwargs[key].t = "str" /\ kwargs[key].s \in valid_analysis
    THEN Append(analysis_now,
                kwargs[CHOOSE key \in DOMAIN kwargs : TRUE].s)
    ELSE analysis_now

set_sph(kwargs) ==
    /\ _sph' = set_sph_fields(_sph, kwargs)
    /\ ret' = [op |-> "set_sph", exc |-> "None", args |-> kwargs]
    /\ UNCHANGED <<qm, _sweep, _step, _modes, _data, _lockin, dim, wp_start,
                   wp_stop, anna, tune, inputs_dict, pc, _volts, hard_config,
                   soft_config, adwin_bootload, analysis, analysis_params>>

set_volts(kwargs) ==
    /\ _volts' = set_volts_fields(_volts, kwargs)
    /\ ret' = [op |-> "set_volts", exc |-> "None", args |-> kwargs]
    /\ UNCHANGED <<qm, _sweep, _step, _modes, _data, _lockin, dim, wp_start,
                   wp_stop, anna, tune, inputs_dict, pc, _sph, hard_config,
                   soft_config, adwin_bootload, analysis, analysis_params>>

set_lockin(kwargs) ==
    /\ _lockin' = set_lockin_fields(_lockin, kwargs)
    /\ ret' = [op |-> "set_lockin", exc |-> "None", args |-> kwargs]
    /\ UNCHANGED <<qm, config, _sweep, _step, _modes, _data, dim, wp_start,
                   wp_stop, anna, tune, inputs_dict, pc>>

set_modes(kwargs) ==
    /\ _modes' = set_modes_fields(_modes, kwargs)
    /\ ret' = [op |-> "set_modes", exc |-> "None", args |-> kwargs]
    /\ UNCHANGED <<qm, config, _sweep, _step, _data, _lockin, dim, wp_start,
                   wp_stop, anna, tune, inputs_dict, pc>>

(***************************************************************************)
(* set_: a key of set_functions given with a dict calls the setter with    *)
(* the dict as its keywords; anything else is logged.                      *)
(***************************************************************************)
set_functions ==
    [sph |-> "set_sph", sweep |-> "set_sweep", step |-> "set_step",
     modes |-> "set_modes", volts |-> "set_volts", lockin |-> "set_lockin",
     data |-> "set_data", hard_config |-> "set_hard_config",
     analysis |-> "set_analysis", soft_config |-> "set_soft_config",
     adwin_bootload |-> "set_adwin_bootload",
     analysis_params |-> "set_analysis_params"]

\* the dict a setter is given as its keywords
Keywords(kwargs) == [t |-> "dict", kw |-> kwargs]

\* a lookup that falls back on a setter
set_target_default(key, val) ==
    IF val.t # "dict" THEN "None"
    ELSE IF key \in DOMAIN set_functions THEN set_functions[key]
    ELSE "set_sph"

\* the setter called for key and val, "None" if there is none
set_target(key, val) ==
    IF key \in DOMAIN set_functions /\ val.t = "dict" THEN set_functions[key]
    ELSE "None"

set_exc(f, kw) ==
    CASE f = "set_sweep" -> set_sweep_exc(_sweep, kw)
      [] f = "set_data" -> set_data_exc(kw.key, kw.key2, kw.val2)
      [] f = "set_analysis_params" -> "TypeError"
      [] OTHER -> "None"

set_(key, val) ==
    LET f == set_target(key, val)
        kw == val.kw
    IN  /\ _sph' = IF f = "set_sph" THEN set_sph_fields(_sph, kw) ELSE _sph
        /\ _sweep' = IF f = "set_sweep" THEN set_sweep_fields(_sweep, kw)
                     ELSE _sweep
        /\ _step' = IF f = "set_step" THEN set_step_fields(_step, kw)
                    ELSE _step
        /\ _modes' = IF f = "set_modes" THEN set_modes_fields(_modes, kw)
                     ELSE _modes
        /\ _volts' = IF f = "set_volts" THEN set_volts_fields(_volts, kw)
                     ELSE _volts
        /\ _lockin' = IF f = "set_lockin" THEN set_lockin_fields(_lockin, kw)
                      ELSE _lockin
        /\ _data' = IF f = "set_data"
                    THEN set_data_fields(_data, kw.key, kw.key2, kw.val2)
                    ELSE _data
        /\ hard_config' = IF f = "set_hard_config"
                          THEN set_config_field(hard_config, "hard_config", kw)
                          ELSE hard_config
        /\ soft_config' = IF f = "set_soft_config"
                          THEN set_config_field(soft_config, "soft_config", kw)
                          ELSE soft_config
        /\ adwin_bootload' = IF f = "set_adwin_bootload"
                             THEN set_adwin_bootload_field(adwin_bootload, kw)
                             ELSE adwin_bootload
        /\ analysis' = IF f = "set_analysis"
                       THEN set_analysis_field(analysis, kw) ELSE analysis
        /\ ret' = [op |-> "set_", exc |-> set_exc(f, kw),
                   args |-> [key |-> key, val |-> val]]
        /\ UNCHANGED <<qm, analysis_params, dim, wp_start, wp_stop, anna, tune,
                       inputs_dict, pc>>


MaxAnalysis == 1

\* One keyword per call.  Lists only grow: a data list is given once and
\* analysis holds at most MaxAnalysis names.
SetKeywords ==
    [sph |-> Kw1("bt", Num(1)), volts |-> Kw1("vg", Num(1)),
     lockin |-> Kw1("freq", Num(1)), modes |-> Kw1("wp", Str("sweep")),
     sweep |-> Kw1("var_name", Str("vg")), step |-> Kw1("var_name", Str("vg")),
     data |-> [key |-> "save", key2 |-> "inph", val2 |-> List(<<"trace">>)],
     hard_config |-> Kw1("hard_config", Dict("user_config")),
     soft_config |-> Kw1("soft_config", Dict("user_config")),
     adwin_bootload |-> Kw1("adwin_bootload", Bool(TRUE)),
     analysis |-> Kw1("name", Str("polarplot")),
     analysis_params |-> Kw1("name", Num(1))]

\* every key of set_functions with keywords its setter stores, with a value
\* that is no dict, and every other key with all of these
SetCalls ==
    {<<key, Keywords(SetKeywords[key])>> : key \in DOMAIN set_functions}
    \cup {<<"sweep", Keywords(Kw1("rate", Num(1)))>>, <<"sph", Num(1)>>,
          <<"volts", NoneArg>>}
    \cup ({"N/A", "_sph"}
            \X ({Keywords(SetKeywords[key]) : key \in {"sph", "hard_config"}}
                  \cup {Num(1), NoneArg}))

NextSet ==
    \E call \in SetCalls :
        LET key == call[1]
            val == call[2]
        IN  /\ set_target(key, val) = "set_data" => _data.save.inph = <<>>
            /\ set_target(key, val) = "set_analysis"
                  => Len(analysis) < MaxAnalysis
            /\ set_(key, val)

SpecSet == Init /\ [][NextSet]_vars

tracked == <<_sph, _sweep, _step, _modes, _volts, _lockin, _data, hard_config,
             soft_config, adwin_bootload, analysis, analysis_params>>

\* C13: a set_ call whose key is not one of the twelve keys of set_functions
\* does not raise and leaves every tracked field as it was, whatever value
\* is given with the key.
C13_UnknownKeyChangesNothing ==
    [][(ret'.op = "set_" /\ ret'.args.key \notin DOMAIN set_functions) =>
         (ret'.exc = "None" /\ tracked' = tracked)]_vars

\* an unknown key was given with a dict that a setter would have stored,
\* after fields had been changed
C13_Witness ==
    /\ ret.op = "set_"
    /\ ret.args.key = "N/A"
    /\ ret.args.val = Keywords(Kw1("bt", Num(1)))
    /\ _sph.bt = 0
    /\ IsSet(_volts.vg)
    /\ hard_config = "user_config"


(***************************************************************************)
(* SpecSetters: the dedicated setters called directly, each with one       *)
(* keyword or two; a value is of the declared type, of another type, or    *)
(* outside the allowed set, and a keyword may be none of the mapping's.    *)
(***************************************************************************)
SetterSweeps ==
    {Kw1("var_name", v) : v \in {Str("vg"), Str("phi"), Str("N"), NoneArg}}
    \cup {Kw1("start", v) : v \in {Num(0), Str("a")}}
    \cup {Kw1("rate", v) : v \in {Num(1), Str("fast")}}
    \cup {Kw1("N/A", Num(1))}

SetterSteps ==
    {Kw1("var_name", v) : v \in {Str("vg"), Str("bp"), Num(1)}}
    \cup {Kw1("start", v) : v \in {Num(1), Str("a")}}
    \cup {Kw1("rate", Num(1))}

SetterModes ==
    {Kw1("wp", v) : v \in {Str("sweep"), Str("static"), NoneArg}}
    \cup {Kw1("measure", v) : v \in {Str("static"), Str("normal"), Num(1)}}
    \cup {Kw1("var_name", Str("sweep"))}

SetterNumbers(key, other) ==
    {Kw1(key, v) : v \in {Num(1), Str("a"), NoneArg}} \cup {Kw1(other, Num(1))}

NextSetters ==
    \/ \E kwargs \in SetterSweeps : set_sweep(kwargs)
    \/ \E kwargs \in SetterSteps : set_step(kwargs)
    \/ \E kwargs \in SetterModes : set_modes(kwargs)
    \/ \E kwargs \in SetterNumbers("bt", "vg") : set_sph(kwargs)
    \/ \E kwargs \in SetterNumbers("vg", "bt") : set_volts(kwargs)
    \/ \E kwargs \in SetterNumbers("freq", "rate") : set_lockin(kwargs)

SpecSetters == Init /\ [][NextSetters]_vars

\* the value given for key is a name of the allowed set
Allowed(kwargs, key, valid) ==
    key \in DOMAIN kwargs /\ kwargs[key].t = "str" /\ kwargs[key].s \in valid

\* C14: whatever set_sweep, set_step and set_modes are given, the sweep and
\* step variables and the two modes are unset or of their allowed sets, and
\* a call whose value is not of the allowed set leaves the field as it was.
C14_EnumeratedFieldsStayAllowed ==
    /\ [](/\ _sweep.var_name \in valid_sweep_vars \cup {"None"}
          /\ _step.var_name \in valid_step_vars \cup {"None"}
          /\ _modes.wp \in valid_wp_mode \cup {"None"}
          /\ _modes.measure \in valid_measure_mode \cup {"None"})
    /\ [][/\ (ret'.op = "set_sweep"
                /\ ~Allowed(ret'.args, "var_name", valid_sweep_vars))
               => _sweep'.var_name = _sweep.var_name
          /\ (ret'.op = "set_step"
                /\ ~Allowed(ret'.args, "var_name", valid_step_vars))
               => _step'.var_name = _step.var_name
          /\ (ret'.op = "set_modes"
                /\ ~Allowed(ret'.args, "wp", valid_wp_mode))
               => _modes'.wp = _modes.wp
          /\ (ret'.op = "set_modes"
                /\ ~Allowed(ret'.args, "measure", valid_measure_mode))
               => _modes'.measure = _modes.measure]_vars

\* a mode of the other field's set was refused for wp, with all four
\* fields set
C14_Witness ==
    /\ ret.op = "set_modes"
    /\ ret.args = Kw1("wp", Str("static"))
    /\ _modes.wp = "sweep"
    /\ _modes.measure = "static"
    /\ _sweep.var_name = "phi"
    /\ _step.var_name = "vg"


\* the mapping each dedicated setter writes
Target ==
    [set_sph |-> _sph, set_volts |-> _volts, set_lockin |-> _lockin,
     set_sweep |-> _sweep, set_step |-> _step]

\* the keys of a setter's mapping that hold numbers
NumericKeys(op) ==
    CASE op = "set_sweep" -> {"start", "stop", "rate"}
      [] op = "set_step" -> {"start", "stop", "step_size"}
      [] OTHER -> DOMAIN Target[op]

\* C15: in a call of set_sph, set_volts, set_lockin, set_sweep or set_step, a
\* value that is no number given for a numeric key (the sweep's rate among
\* them) leaves that field as it was and the call does not raise; a key that
\* is not in the setter's mapping changes no field.
C15_NonNumericLeftUnchangedNoRaise ==
    [][ret'.op \in DOMAIN Target =>
         \A key \in DOMAIN ret'.args :
            /\ (key \in NumericKeys(ret'.op) /\ ~IsNumber(ret'.args[key]))
                 => /\ ret'.exc = "None"
                    /\ Target'[ret'.op][key] = Target[ret'.op][key]
            /\ key \notin DOMAIN Target[ret'.op]
                 => tracked' = tracked]_vars


\* C17: the names in inputs_dict, registered with the measurement, are the
\* keys of the mapping a sweep_measure that returns gives back, whatever
\* configuration calls came before it.
C17_RegisteredNamesAreReturnedKeys ==
    [][(ret'.op = "sweep_measure" /\ ret'.exc = "None") =>
         DOMAIN Get(inputs_dict') = DOMAIN ret'.val]_vars


\* C18: a construction that got to start_sweep has given the instrument
\* exactly one ramp command, to the start point's outputs and of the
\* duration computed from the outputs read back, and a run is issued only
\* after it.
C18_OneRampToStartBeforeRun ==
    LET ramps == {i \in DOMAIN anna : anna[i].cmd = "sweep"}
        log == IF tune = None THEN <<>> ELSE Get(tune)
    IN  /\ (pc \in {"constructed", "raised"}
              /\ ret.op \in {"start_sweep", "start_measurement"}) =>
              /\ Cardinality(ramps) = 1
              /\ \A i \in ramps :
                   /\ anna[i].target = WpOuts(Get(wp_start))
                   /\ ~min_duration_raises(anna[i].target) =>
                        anna[i].duration =
                          min_duration(anna[i].target,
                                       [ch \in DOMAIN anna[i].target |-> 0])
        /\ Runs(log) # {} => Cardinality(ramps) = 1


\* the working point holds x for the parameter var
Holds(wp, var, x) ==
    IF var \in DOMAIN wp._sph THEN wp._sph[var] = x
    ELSE var \in DOMAIN wp._outputs /\ wp._outputs[var] = x

\* the two working points agree on every parameter but var
SameBut(wp, wp_after, var) ==
    /\ \A p \in DOMAIN wp._sph \ {var} : wp_after._sph[p] = wp._sph[p]
    /\ \A ch \in DOMAIN wp._outputs \ {var} :
         wp_after._outputs[ch] = wp._outputs[ch]

\* C19: after wp_setter(x) with a step variable that names a working-point
\* parameter (bt, phi, psi, theta, or an output vg, vd), the start point and
\* the stop point both hold x for it and have all other parameters as
\* before.
C19_StepValueInBothPoints ==
    [][(ret'.op = "wp_setter"
          /\ _step.var_name \in {"bt", "phi", "psi", "theta", "vg", "vd"}) =>
         LET var == _step.var_name
             x == ret'.args.x.n
         IN  /\ Holds(Get(wp_start'), var, x)
             /\ Holds(Get(wp_stop'), var, x)
             /\ SameBut(Get(wp_start), Get(wp_start'), var)
             /\ SameBut(Get(wp_stop), Get(wp_stop'), var)]_vars


\* C20: every name of the allowed sweep set has an entry in the rate table:
\* a set_sweep call with a numeric rate, for whichever allowed variable is
\* stored by then, does not raise and leaves a rate stored.
C20_EverySweepVariableHasRate ==
    [][(/\ ret'.op = "set_sweep"
        /\ "rate" \in DOMAIN ret'.args /\ IsNumber(ret'.args["rate"])
        /\ _sweep'.var_name \in valid_sweep_vars) =>
         (ret'.exc = "None" /\ IsSet(_sweep'.rate))]_vars


\* C21: a sweep duration that is set is not negative, a stop below the start
\* included, and neither is the number of values generated from it.
C21_DurationNotNegative ==
    /\ IsSet(_sweep.duration) =>
         Get(_sweep.duration).n * Get(_sweep.duration).d >= 0
    /\ IsSet(_sweep.values) => Get(_sweep.values).num >= 0


(***************************************************************************)
(* SpecData: set_data called any number of times, with lists that repeat   *)
(* and with items, phases and categories that are not known; a list holds  *)
(* at most MaxItems items.                                                 *)
(***************************************************************************)
MaxItems == 2

SetDataPhases == {"save", "plot", "temp_save", "N/A"}
SetDataCategories == {"inph", "N/A"}
SetDataLists == {<<"trace">>, <<"N/A">>, <<"difference", "trace">>}

NextData ==
    \E key \in SetDataPhases, key2 \in SetDataCategories,
       val2 \in SetDataLists :
        /\ (key \in DOMAIN _data /\ key2 \in DOMAIN _data[key])
              => Len(_data[key][key2]) + Len(val2) <= MaxItems
        /\ set_data(key, key2, List(val2))

SpecData == Init /\ [][NextData]_vars

\* C22: whatever set_data was given, every item of a category list of the
\* save, plot and temp_save configurations is one of trace, retrace and
\* difference and is in its list once; and a set_data naming a phase or a
\* category that is not known would change nothing and not raise.
C22_ListsHoldAllowedItemsOnce ==
    /\ \A key \in {"save", "plot", "temp_save"}, c \in Categories :
         /\ Range(_data[key][c]) \subseteq valid_traces
         /\ Cardinality(Range(_data[key][c])) = Len(_data[key][c])
    /\ \A key \in SetDataPhases, key2 \in SetDataCategories,
          val2 \in SetDataLists :
         (key = "N/A" \/ key2 = "N/A") =>
            /\ set_data_fields(_data, key, key2, List(val2)) = _data
            /\ set_data_exc(key, key2, List(val2)) = "None"


(***************************************************************************)
(* QmQkitWrapper.measure: the wrapper put around a measurement method.     *)
(* 'save' is taken out of the keywords; with a true save, qkit.flow.start  *)
(* is called, then the method, then the file name is built, the file is    *)
(* prepared and store_data writes it and calls qkit.flow.end.  No step is  *)
(* guarded: an exception leaves the wrapper where it is raised.  flow is   *)
(* the calls made, in order.                                               *)
(***************************************************************************)
Event(name) == [ev |-> name, kwargs |-> {}]

\* the call of the wrapped method, with the names of the keywords it gets
Func(kwargs) == [ev |-> "func", kwargs |-> DOMAIN kwargs]

FileNamePrefix ==
    <<"Q", "M", "_", "e", "x", "p", "e", "r", "i", "m", "e", "n", "t", "_">>

\* replace(' ', '').replace(',', '_')
Replaced(name) ==
    LET kept == SelectSeq(name, LAMBDA ch : ch # " ")
    IN  [i \in 1..Len(kept) |-> IF kept[i] = "," THEN "_" ELSE kept[i]]

\* lines 48-52: str + None is a TypeError
file_name_exc(w) == IF w.exp_name = None THEN "TypeError" ELSE "None"

file_name(w) ==
    Replaced(IF w.dirname # <<>>
             THEN FileNamePrefix \o Get(w.exp_name) \o <<"_">> \o w.dirname
             ELSE FileNamePrefix \o Get(w.exp_name))

\* store_data up to qkit.flow.end.  A value names one to three coordinates;
\* one that is not a key of coords is a KeyError, and the first value with
\* another number of them leaves value_file unbound at line 123.
RECURSIVE store_data_exc(_, _, _)
store_data_exc(values, coords, i) ==
    IF i > Len(values) THEN "None"
    ELSE LET coord_key_list == values[i].coord_key_list
         IN  IF Len(coord_key_list) \in 1..3
             THEN IF Range(coord_key_list) \subseteq coords
                  THEN store_data_exc(values, coords, i + 1)
                  ELSE "KeyError"
             ELSE IF i = 1 THEN "UnboundLocalError"
             ELSE store_data_exc(values, coords, i + 1)

\* the calls store_data makes
store_data_flow(values, coords) ==
    IF store_data_exc(values, coords, 1) = "None"
    THEN <<Event("flow.end"), Event("close_file")>>
    ELSE <<>>

\* what the wrapped method leaves in the object
Assigned(w, effect) ==
    [w EXCEPT !.exp_name = effect.exp_name, !.dirname = effect.dirname,
              !.coords = effect.coords, !.values = effect.values]

MaxFlow == 4

\* func_exc and prepare_exc: what the wrapped method and the creation of
\* the file raise, "None" if they return
measure(kwargs, effect, func_exc, prepare_exc) ==
    LET save == IF "save" \in DOMAIN kwargs THEN kwargs["save"].v ELSE FALSE
        passed == [k \in DOMAIN kwargs \ {"save"} |-> kwargs[k]]
        started == IF save THEN <<Event("flow.start")>> ELSE <<>>
        called == started \o <<Func(passed)>>
        w1 == Assigned(wrapper, effect)
        w2 == [w1 EXCEPT !._file_name = Some(file_name(w1)),
                         !.comment = <<"hallo">>]
        result(log, w, exc) ==
            /\ flow' = flow \o log
            /\ wrapper' = w
            /\ ret' = [op |-> "measure", exc |-> exc, args |-> kwargs]
    IN  /\ Len(flow) < MaxFlow
        /\ IF func_exc # "None" THEN result(called, w1, func_exc)
           ELSE IF ~save THEN result(called, w1, "None")
           ELSE IF file_name_exc(w1) # "None"
           THEN result(called, w1, file_name_exc(w1))
           ELSE IF prepare_exc # "None" THEN result(called, w2, prepare_exc)
           ELSE result(called \o <<Event("hdf.Data")>>
                              \o store_data_flow(w2.values, w2.coords),
                       w2, store_data_exc(w2.values, w2.coords, 1))
        /\ UNCHANGED <<config, _sweep, _step, _modes, _data, _lockin, dim,
                       wp_start, wp_stop, anna, tune, inputs_dict, pc>>

MeasureKwargs ==
    {<<>>, Kw1("save", Bool(TRUE)), Kw1("save", Bool(FALSE)),
     [save |-> Bool(TRUE), n_avg |-> Num(1)]}

\* a value is [key, coord_key_list]
FuncEffects ==
    {[exp_name |-> None, dirname |-> <<>>, coords |-> {}, values |-> <<>>],
     [exp_name |-> Some(<<"T", "1">>), dirname |-> <<"a", ",", " ", "b">>,
      coords |-> {"t"},
      values |-> <<[key |-> "I", coord_key_list |-> <<"t">>]>>],
     [exp_name |-> Some(<<"T", "1">>), dirname |-> <<>>, coords |-> {"t"},
      values |-> <<[key |-> "I", coord_key_list |-> <<"f">>]>>],
     [exp_name |-> Some(<<"T", "1">>), dirname |-> <<>>, coords |-> {"t"},
      values |-> <<[key |-> "I", coord_key_list |-> <<>>]>>]}

NextQm ==
    \E kwargs \in MeasureKwargs, effect \in FuncEffects,
       func_exc \in {"None", "RuntimeError"},
       prepare_exc \in {"None", "OSError"} :
        measure(kwargs, effect, func_exc, prepare_exc)

SpecQm == Init /\ [][NextQm]_vars


\* C23: in every call of a wrapped method, with save true qkit.flow.start is
\* called once, before the method, and qkit.flow.end once after it, however
\* the call ends, an exception of the method or of the file preparation
\* included; with save false or not given neither is called; and the method
\* is never given a 'save' keyword.
C23_FlowStartedAndEndedOnce ==
    [][ret'.op = "measure" =>
         LET added == SubSeq(flow', Len(flow) + 1, Len(flow'))
             at(name) == {i \in DOMAIN added : added[i].ev = name}
             save == IF "save" \in DOMAIN ret'.args
                     THEN ret'.args["save"].v ELSE FALSE
         IN  /\ save =>
                  /\ Cardinality(at("flow.start")) = 1
                  /\ Cardinality(at("flow.end")) = 1
                  /\ \A i \in at("flow.start"), j \in at("func"),
                        k \in at("flow.end") : i < j /\ j < k
             /\ ~save => (at("flow.start") = {} /\ at("flow.end") = {})
             /\ \A j \in at("func") : "save" \notin added[j].kwargs]_vars

=============================================================================
